---- MODULE Spec2Model ----
(***************************************************************************)
(* Model of codplayer's file system database interface                     *)
(* (src/src/codplayer/db.py): the identifier codec, the directory layout,  *)
(* init_db / Database.__init__ and the disc operations, over an explicit   *)
(* model of the directory tree below the database top directory.           *)
(*                                                                         *)
(* Strings are sequences of one-character strings, so that slicing,        *)
(* indexing, regular-expression matching and the base64/base16 codecs are  *)
(* computed as the code computes them.                                     *)
(***************************************************************************)
EXTENDS Integers, Sequences, FiniteSets, TLC

VARIABLES
    rootExists,   \* db_dir exists and is a directory
    rootdir,      \* entries of db_dir: name -> node
    buckets,      \* entries of db_dir/discs: bucket name -> (entry name -> node)
    opened,       \* a Database object has been constructed for db_dir
    rips,         \* layouts returned by create_disc_dir, held by the ripping process
    last,         \* the last call and its outcome
    tampers,      \* number of administrative changes made to the tree so far
    initpc,       \* the position of a running init_db: steps carried out so far
    calls         \* the position of each running create_disc_dir call

vars == <<rootExists, rootdir, buckets, opened, rips, last, tampers, initpc, calls>>

\* The positions of the calls that are followed statement by statement
stepvars == <<initpc, calls>>

fsvars == <<rootExists, rootdir, buckets>>

\* Number of out-of-band changes to the store's skeleton (a removed bucket
\* directory, an edited version file) explored in one behaviour of Spec.
MaxTamper == 2

\* Number of foreign entries put into bucket directories in one behaviour of
\* RepoSpec.
MaxPlant == 1

-----------------------------------------------------------------------------
(* Characters and strings *)

Rep(c, n) == [i \in 1..n |-> c]

Range(s) == {s[i] : i \in 1..Len(s)}

Min(a, b) == IF a < b THEN a ELSE b

IndexOf(s, c) == CHOOSE i \in 1..Len(s) : s[i] = c

\* s[:n]
Prefix(s, n) == SubSeq(s, 1, Min(n, Len(s)))

DecDigits == <<"0", "1", "2", "3", "4", "5", "6", "7", "8", "9">>

UpperHexDigits == DecDigits \o <<"A", "B", "C", "D", "E", "F">>

LowerHexDigits == DecDigits \o <<"a", "b", "c", "d", "e", "f">>

UpperHexSet == Range(UpperHexDigits)

LowerHexSet == Range(LowerHexDigits)

DecSet == Range(DecDigits)

\* The character class [0-9a-fA-F]
HexChars == UpperHexSet \cup LowerHexSet

Whitespace == {" ", "\n"}

\* str.lower() on one character: only A-F occur in upper case in base16 output
LowerChar(c) ==
    IF c \in UpperHexSet
    THEN LowerHexDigits[IndexOf(UpperHexDigits, c)]
    ELSE c

Lower(s) == [i \in 1..Len(s) |-> LowerChar(s[i])]

UpperChar(c) ==
    IF c \in LowerHexSet
    THEN UpperHexDigits[IndexOf(LowerHexDigits, c)]
    ELSE c

-----------------------------------------------------------------------------
(* Class constants *)

VERSION == 1

VERSION_FILE == ".codplayerdb"

DISC_DIR == "discs"

DISC_BUCKETS == LowerHexDigits

BucketSet == Range(DISC_BUCKETS)


DISC_ID_SUFFIX == <<".", "i", "d">>

AUDIO_SUFFIX == <<".", "c", "d", "r">>

ORIG_TOC_SUFFIX == <<".", "t", "o", "c">>

COOKED_TOC_SUFFIX == <<".", "c", "o", "d">>

RIP_LOG_SUFFIX == <<".", "r", "i", "p", "l", "o", "g">>

\* {40} in VALID_DB_ID_RE
DB_ID_LEN == 40

\* db_id[:8]
FBASE_LEN == 8

-----------------------------------------------------------------------------
(* Identifier codec *)

B64Alphabet ==
    <<"A", "B", "C", "D", "E", "F", "G", "H", "I", "J", "K", "L", "M",
      "N", "O", "P", "Q", "R", "S", "T", "U", "V", "W", "X", "Y", "Z",
      "a", "b", "c", "d", "e", "f", "g", "h", "i", "j", "k", "l", "m",
      "n", "o", "p", "q", "r", "s", "t", "u", "v", "w", "x", "y", "z",
      "0", "1", "2", "3", "4", "5", "6", "7", "8", "9", "+", "/">>

\* string.maketrans('._-', '+/=') applied to one character
DISC_ID_TO_BASE64(c) ==
    CASE c = "." -> "+"
      [] c = "_" -> "/"
      [] c = "-" -> "="
      [] OTHER -> c

\* string.maketrans('+/=', '._-') applied to one character
BASE64_TO_DISC_ID(c) ==
    CASE c = "+" -> "."
      [] c = "/" -> "_"
      [] c = "=" -> "-"
      [] OTHER -> c

B64Set == Range(B64Alphabet)

Pow2(n) == 2 ^ n

\* binascii_find_valid(s, slen, 1) called at position i: the next character
\* after s[i] that belongs to the base64 table (the pad character does), or
\* "" if there is none.
RECURSIVE FindValid(_, _)
FindValid(s, i) ==
    IF i > Len(s) THEN ""
    ELSE IF s[i] \in B64Set \cup {"="} THEN s[i]
    ELSE FindValid(s, i + 1)

\* The decoding loop of binascii.a2b_base64, as called by base64.b64decode:
\* characters outside the alphabet are skipped, a pad sequence ends the
\* input, and bits left over at the end are "Incorrect padding".
RECURSIVE A2BLoop(_, _, _, _, _, _)
A2BLoop(s, i, quad, leftchar, leftbits, out) ==
    IF i > Len(s)
    THEN [ok |-> leftbits = 0, bytes |-> out]
    ELSE
      LET c == s[i] IN
      IF c = "="
      THEN IF quad < 2 \/ (quad = 2 /\ FindValid(s, i + 1) # "=")
           THEN A2BLoop(s, i + 1, quad, leftchar, leftbits, out)
           ELSE [ok |-> TRUE, bytes |-> out]
      ELSE IF c \notin B64Set
      THEN A2BLoop(s, i + 1, quad, leftchar, leftbits, out)
      ELSE
        LET v    == IndexOf(B64Alphabet, c) - 1
            lc   == leftchar * 64 + v
            bits == leftbits + 6
        IN IF bits >= 8
           THEN A2BLoop(s, i + 1, (quad + 1) % 4,
                        lc % Pow2(bits - 8), bits - 8,
                        Append(out, (lc \div Pow2(bits - 8)) % 256))
           ELSE A2BLoop(s, i + 1, (quad + 1) % 4, lc, bits, out)

b64decode(s) == A2BLoop(s, 1, 0, 0, 0, <<>>)

\* base64.b16encode: two upper-case hexadecimal digits per byte
b16encode(bytes) ==
    [i \in 1..(2 * Len(bytes)) |->
        LET b == bytes[(i + 1) \div 2]
        IN IF i % 2 = 1 THEN UpperHexDigits[(b \div 16) + 1]
                        ELSE UpperHexDigits[(b % 16) + 1]]

\* disc_to_db_id without the final .lower()
disc_to_db_idNoLower(disc_id) ==
    LET id64  == [i \in 1..Len(disc_id) |-> DISC_ID_TO_BASE64(disc_id[i])]
        idraw == b64decode(id64)
    IN [ok |-> idraw.ok,
        id |-> IF idraw.ok THEN b16encode(idraw.bytes) ELSE <<>>]

\* Database.disc_to_db_id: [ok, id]; not ok is the TypeError of b64decode
disc_to_db_id(disc_id) ==
    LET id64  == [i \in 1..Len(disc_id) |-> DISC_ID_TO_BASE64(disc_id[i])]
        idraw == b64decode(id64)
    IN [ok |-> idraw.ok,
        id |-> IF idraw.ok THEN Lower(b16encode(idraw.bytes)) ELSE <<>>]

\* base64.b16decode(db_id, True): [ok, bytes]; not ok is its TypeError
b16decode(s) ==
    LET u == [i \in 1..Len(s) |-> UpperChar(s[i])]
    IN IF (\E i \in 1..Len(u) : u[i] \notin UpperHexSet) \/ Len(u) % 2 = 1
       THEN [ok |-> FALSE, bytes |-> <<>>]
       ELSE [ok |-> TRUE,
             bytes |-> [k \in 1..(Len(u) \div 2) |->
                          16 * (IndexOf(UpperHexDigits, u[2 * k - 1]) - 1)
                          + (IndexOf(UpperHexDigits, u[2 * k]) - 1)]]

\* The 6-bit group number g (0-based) of a byte string, zero-padded
SixBits(bytes, g) ==
    LET bitpos == 6 * g
        k      == bitpos \div 8
        off    == bitpos % 8
        hi     == bytes[k + 1]
        lo     == IF k + 2 <= Len(bytes) THEN bytes[k + 2] ELSE 0
        word   == hi * 256 + lo
    IN (word \div Pow2(10 - off)) % 64

\* base64.b64encode
b64encode(bytes) ==
    LET n      == Len(bytes)
        groups == (4 * n + 2) \div 3
        total  == 4 * ((n + 2) \div 3)
    IN [i \in 1..total |->
          IF i <= groups THEN B64Alphabet[SixBits(bytes, i - 1) + 1] ELSE "="]

\* Database.db_to_disc_id: [ok, id]
db_to_disc_id(db_id) ==
    LET idraw == b16decode(db_id)
        id64  == b64encode(idraw.bytes)
    IN [ok |-> idraw.ok,
        id |-> IF idraw.ok
               THEN [i \in 1..Len(id64) |-> BASE64_TO_DISC_ID(id64[i])]
               ELSE <<>>]

\* Database.is_valid_db_id: VALID_DB_ID_RE.match(db_id) is not None.  In a
\* Python regular expression '$' matches at the end of the string and also
\* just before a newline that ends the string.
is_valid_db_id(db_id) ==
    LET n == Len(db_id)
    IN /\ \/ n = DB_ID_LEN
          \/ n = DB_ID_LEN + 1 /\ db_id[n] = "\n"
       /\ \A i \in 1..DB_ID_LEN : db_id[i] \in HexChars

\* Database.bucket_for_db_id: db_id[0] (IndexError on the empty string, which
\* the callers below rule out before calling)
bucket_for_db_id(db_id) == db_id[1]

\* Database.filename_base
filename_base(db_id) == Prefix(db_id, FBASE_LEN)

\* Database.get_disc_dir, relative to db_dir/discs: <<bucket, entry>>
get_disc_dir(db_id) == <<bucket_for_db_id(db_id), db_id>>

-----------------------------------------------------------------------------
(* The directory tree *)

\* A directory entry.  A regular file has data; a directory has files
\* (file name -> data).
FileNode(data) == [kind |-> "file", data |-> data, files |-> <<>>]

DirNode(files) == [kind |-> "dir", data |-> <<>>, files |-> files]

EmptyDir == DirNode(<<>>)

\* The function f extended or overwritten at key k
Put(f, k, v) == [x \in DOMAIN f \cup {k} |-> IF x = k THEN v ELSE f[x]]

\* The function f without key k
Drop(f, k) == [x \in DOMAIN f \ {k} |-> f[x]]

\* os.path.isfile(os.path.join(db_dir, VERSION_FILE))
IsVersionFile(rd) == VERSION_FILE \in DOMAIN rd /\ rd[VERSION_FILE].kind = "file"

\* os.path.isdir(os.path.join(db_dir, DISC_DIR))
IsDiscTopDir(rd) == DISC_DIR \in DOMAIN rd /\ rd[DISC_DIR].kind = "dir"

\* os.path.isdir(os.path.join(disc_top_dir, b))
IsBucketDir(bk, b) == b \in DOMAIN bk

\* os.path.isdir(path) for a path <<bucket, entry>> below the disc top dir
IsDiscDir(bk, path) ==
    /\ path[1] \in DOMAIN bk
    /\ path[2] \in DOMAIN bk[path[1]]
    /\ bk[path[1]][path[2]].kind = "dir"

\* os.path.exists(os.path.join(path, name))
FileExists(bk, path, name) ==
    /\ IsDiscDir(bk, path)
    /\ name \in DOMAIN bk[path[1]][path[2]].files

\* os.mkdir(path) succeeds: the parent exists and the name is free
CanMkdir(bk, path) ==
    /\ path[1] \in DOMAIN bk
    /\ path[2] \notin DOMAIN bk[path[1]]

Mkdir(bk, path) == [bk EXCEPT ![path[1]] = Put(@, path[2], EmptyDir)]

\* open(os.path.join(path, name), 'wt'); write(data); close()
WriteFile(bk, path, name, data) ==
    [bk EXCEPT ![path[1]] =
        [@ EXCEPT ![path[2]] = DirNode(Put(@.files, name, data))]]

-----------------------------------------------------------------------------
(* Outcomes of calls *)

NoFault == <<"none", "">>

NoDisc == [toc |-> <<>>, disc_id |-> <<>>]

NoLayout == [disc_path |-> <<>>, audio_file |-> <<>>, toc_file |-> <<>>,
             log_path |-> <<>>]

\* What the caller of `op` observes.  result is "ok" (a value was returned),
\* "None", or the class of the exception raised; msg and entry are the
\* message and entry of a DatabaseError; touched tells whether the call got
\* as far as its first file system access.
Outcome(op, arg, fault, result, msg, entry) ==
    [op |-> op, arg |-> arg, fault |-> fault, result |-> result, msg |-> msg,
     entry |-> entry, disc |-> NoDisc, layout |-> NoLayout, yielded |-> <<>>,
     touched |-> TRUE]

-----------------------------------------------------------------------------
(* Text of the version file *)

RECURSIVE LStrip(_)
LStrip(s) == IF s # <<>> /\ Head(s) \in Whitespace THEN LStrip(Tail(s)) ELSE s

RECURSIVE RStrip(_)
RStrip(s) ==
    IF s # <<>> /\ s[Len(s)] \in Whitespace
    THEN RStrip(SubSeq(s, 1, Len(s) - 1))
    ELSE s

RECURSIVE DigitsValue(_)
DigitsValue(s) ==
    IF s = <<>> THEN 0
    ELSE 10 * DigitsValue(SubSeq(s, 1, Len(s) - 1))
         + (IndexOf(DecDigits, s[Len(s)]) - 1)

\* int(s): surrounding whitespace is ignored, then an optional sign and at
\* least one decimal digit; anything else is a ValueError (ok = FALSE).
ParseInt(s) ==
    LET t      == RStrip(LStrip(s))
        signed == t # <<>> /\ Head(t) \in {"+", "-"}
        d      == IF signed THEN Tail(t) ELSE t
    IN IF d = <<>> \/ \E i \in 1..Len(d) : d[i] \notin DecSet
       THEN [ok |-> FALSE, value |-> 0]
       ELSE [ok |-> TRUE,
             value |-> IF signed /\ Head(t) = "-" THEN 0 - DigitsValue(d)
                       ELSE DigitsValue(d)]

\* f.readline(): up to and including the first newline
ReadLine(data) ==
    IF "\n" \in Range(data) THEN SubSeq(data, 1, IndexOf(data, "\n")) ELSE data

RECURSIVE FormatNat(_)
FormatNat(n) ==
    IF n < 10 THEN <<DecDigits[n + 1]>>
    ELSE Append(FormatNat(n \div 10), DecDigits[(n % 10) + 1])

\* '%d\n' % cls.VERSION
VersionText == Append(FormatNat(VERSION), "\n")

-----------------------------------------------------------------------------
(* Store lifecycle *)

\* The buckets that precede b in DISC_BUCKETS
BucketsBefore(b) == {DISC_BUCKETS[i] : i \in 1..(IndexOf(DISC_BUCKETS, b) - 1)}

InitFaults ==
    {NoFault, <<"version", "">>, <<"discs", "">>} \cup {<<"bucket", b>> : b \in BucketSet}

\* "if os.listdir(db_dir):" in init_db, negated
IsEmptyDirUnchecked(rd) == TRUE

IsEmptyDir(rd) == DOMAIN rd = {}

\* init_db with the last bucket left out of the loop
InitDbTreeShortLoop(fault) ==
    LET made == IF fault[1] = "bucket" THEN BucketsBefore(fault[2])
                ELSE IF fault = NoFault THEN BucketsBefore(DISC_BUCKETS[Len(DISC_BUCKETS)])
                ELSE {}
    IN [rd |-> IF fault[1] = "version" THEN <<>>
               ELSE IF fault[1] = "discs"
                    THEN Put(<<>>, VERSION_FILE, FileNode(VersionText))
               ELSE Put(Put(<<>>, VERSION_FILE, FileNode(VersionText)),
                        DISC_DIR, EmptyDir),
        bk |-> [b \in made |-> <<>>]]

\* The tree init_db leaves behind when `fault` is the step that raises
\* IOError/OSError: every step before it has been carried out.
InitDbTree(fault) ==
    LET made == IF fault[1] = "bucket" THEN BucketsBefore(fault[2])
                ELSE IF fault = NoFault THEN BucketSet
                ELSE {}
    IN [rd |-> IF fault[1] = "version" THEN <<>>
               ELSE IF fault[1] = "discs"
                    THEN Put(<<>>, VERSION_FILE, FileNode(VersionText))
               ELSE Put(Put(<<>>, VERSION_FILE, FileNode(VersionText)),
                        DISC_DIR, EmptyDir),
        bk |-> [b \in made |-> <<>>]]

\* Database.init_db(db_dir).  The handler at the end of the method names
\* self, which a class method does not have: an IOError/OSError in the body
\* reaches the caller as a NameError.
InitDb(fault) ==
    /\ IF ~rootExists
       THEN /\ last' = Outcome("init_db", <<>>, NoFault, "DatabaseError", "no such dir", "")
            /\ UNCHANGED fsvars
       ELSE IF ~IsEmptyDir(rootdir)
       THEN /\ last' = Outcome("init_db", <<>>, NoFault, "DatabaseError", "dir is not empty", "")
            /\ UNCHANGED fsvars
       ELSE /\ rootdir' = InitDbTree(fault).rd
            /\ buckets' = InitDbTree(fault).bk
            /\ UNCHANGED rootExists
            /\ last' = IF fault = NoFault
                       THEN Outcome("init_db", <<>>, fault, "ok", "", "")
                       ELSE Outcome("init_db", <<>>, fault, "NameError", "", "")
    /\ UNCHANGED <<opened, rips, tampers, stepvars>>

\* The bucket loop of Database.__init__ left after its first round
MissingBucketsFirstOnly(bk) ==
    {i \in 1..1 : ~IsBucketDir(bk, DISC_BUCKETS[i])}


\* The bucket loop of Database.__init__ cut short by one
MissingBucketsShortLoop(bk) ==
    {i \in 1..(Len(DISC_BUCKETS) - 1) : ~IsBucketDir(bk, DISC_BUCKETS[i])}

\* The positions in DISC_BUCKETS of the bucket directories that fail
\* "os.path.isdir(d)" in the loop of Database.__init__
MissingBuckets(bk) ==
    {i \in 1..Len(DISC_BUCKETS) : ~IsBucketDir(bk, DISC_BUCKETS[i])}

\* Database.__init__ naming the last missing bucket instead of the first
OpenCheckLastMissing(exists, rd, bk, readFault) ==
    LET R(result, msg, entry) == [result |-> result, msg |-> msg, entry |-> entry]
        raw_version == ReadLine(rd[VERSION_FILE].data)
        version     == ParseInt(raw_version)
        missing     == MissingBuckets(bk)
    IN IF ~exists THEN R("DatabaseError", "no such directory", "")
       ELSE IF ~IsVersionFile(rd) THEN R("DatabaseError", "missing version file", VERSION_FILE)
       ELSE IF readFault THEN R("DatabaseError", "io", "")
       ELSE IF ~version.ok THEN R("DatabaseError", "invalid version", VERSION_FILE)
       ELSE IF version.value # VERSION THEN R("DatabaseError", "incompatible version", VERSION_FILE)
       ELSE IF ~IsDiscTopDir(rd) THEN R("DatabaseError", "missing disc dir", "")
       ELSE IF missing # {}
            THEN R("DatabaseError", "missing bucket dir",
                   DISC_BUCKETS[CHOOSE i \in missing : \A j \in missing : i >= j])
       ELSE R("ok", "", "")


\* The checks of Database.__init__ against a tree, in order: the outcome
\* [result, msg, entry].  readFault is an IOError from open(version_path).
OpenCheck(exists, rd, bk, readFault) ==
    LET R(result, msg, entry) == [result |-> result, msg |-> msg, entry |-> entry]
        raw_version == ReadLine(rd[VERSION_FILE].data)
        version     == ParseInt(raw_version)
        missing     == MissingBuckets(bk)
    IN IF ~exists THEN R("DatabaseError", "no such directory", "")
       ELSE IF ~IsVersionFile(rd) THEN R("DatabaseError", "missing version file", VERSION_FILE)
       ELSE IF readFault THEN R("DatabaseError", "io", "")
       ELSE IF ~version.ok THEN R("DatabaseError", "invalid version", VERSION_FILE)
       ELSE IF version.value # VERSION THEN R("DatabaseError", "incompatible version", VERSION_FILE)
       ELSE IF ~IsDiscTopDir(rd) THEN R("DatabaseError", "missing disc dir", "")
       ELSE IF missing # {}
            THEN R("DatabaseError", "missing bucket dir",
                   DISC_BUCKETS[CHOOSE i \in missing : \A j \in missing : i <= j])
       ELSE R("ok", "", "")

\* Database(db_dir)
Open(readFault) ==
    LET r == OpenCheck(rootExists, rootdir, buckets, readFault) IN
    /\ readFault => rootExists /\ IsVersionFile(rootdir)
    /\ last' = Outcome("open", <<>>, IF readFault THEN <<"read", "">> ELSE NoFault,
                       r.result, r.msg, r.entry)
    /\ opened' = (opened \/ r.result = "ok")
    /\ UNCHANGED <<fsvars, rips, tampers, stepvars>>

-----------------------------------------------------------------------------
(* Callers' inputs *)

\* The disc ID of the disc in the class documentation (b8ffac79...)
IdDoc ==
    <<"u", "P", ".", "s", "e", "b", "Z", "o", "i", "Z", "S", "Y", "a", "k",
      "Z", "h", ".", "g", "3", "c", "o", "K", "r", "m", "e", "8", "I", "-">>

\* A short identifier with all three remapped characters
IdShort == <<"X", "y", "z", ".", "_", "-", "A", "b", "C">>

\* Not base64: bits are left over
IdBad == <<"A", "A", "A">>

DiscIds == {IdDoc, IdShort, IdBad}

\* Strings that are no base64 text after translation: a character outside
\* the alphabet after a full group of four, and nothing but such characters
IdJunk == <<"A", "A", "A", "A", "!">>

IdPunct == <<"!", "!", "!", "!">>

MalformedIds == {IdBad, IdJunk, IdPunct}

\* disc_to_db_id over the disc IDs that callers pass, computed once
Encoded == [d \in DiscIds \cup MalformedIds |-> disc_to_db_id(d)]

DbDoc == Encoded[IdDoc].id

DbShort == Encoded[IdShort].id

\* DbDoc as b16encode writes it, in upper case
DbUpper == [i \in 1..Len(DbDoc) |-> UpperChar(DbDoc[i])]

\* DbDoc followed by a newline
DbNewline == Append(DbDoc, "\n")

DbZero == Rep("0", DB_ID_LEN)

DbJunk == <<"l", "o", "s", "t">>

\* The database IDs that callers pass and the names found in bucket directories
DbIds == {DbDoc, DbShort, DbUpper, DbNewline, DbZero, DbJunk}

\* What disc_to_db_id makes of the malformed disc IDs
MalformedDbIds == {Encoded[d].id : d \in MalformedIds}

\* is_valid_db_id and db_to_disc_id over the names looked up, computed once
ValidDbId == [n \in DbIds \cup MalformedDbIds |-> is_valid_db_id(n)]

Decoded == [n \in DbIds \cup MalformedDbIds |-> db_to_disc_id(n)]

\* What the ripping process writes
TocText == <<"C", "D", "_", "D", "A", "\n">>

AudioData == <<"0", "0">>

\* A disc directory holding the mandatory files of db_id
RippedDir(db_id) ==
    DirNode(Put(Put(<<>>, filename_base(db_id) \o AUDIO_SUFFIX, AudioData),
                filename_base(db_id) \o ORIG_TOC_SUFFIX, TocText))

\* Entries that reach a bucket directory other than through create_disc_dir:
\* a name with a trailing newline, an upper-case name, a directory in the
\* wrong bucket, a stray file, and a disc copied from another database.
Plants ==
    {[bucket |-> "b", name |-> DbNewline, node |-> RippedDir(DbNewline)],
     [bucket |-> "b", name |-> DbUpper,   node |-> EmptyDir],
     [bucket |-> "0", name |-> DbDoc,     node |-> EmptyDir],
     [bucket |-> "0", name |-> DbJunk,    node |-> FileNode(<<>>)],
     [bucket |-> "0", name |-> DbZero,    node |-> RippedDir(DbZero)]}

\* Texts an edited version file may hold
VersionTexts ==
    {<<>>, <<"x", "\n">>, <<"2", "\n">>, <<"1", "\n", "x">>}

-----------------------------------------------------------------------------
(* Disc repository *)

\* The mapping create_disc_dir returns for db_id
Layout(db_id) ==
    [disc_path  |-> get_disc_dir(db_id),
     audio_file |-> filename_base(db_id) \o AUDIO_SUFFIX,
     toc_file   |-> filename_base(db_id) \o ORIG_TOC_SUFFIX,
     log_path   |-> <<get_disc_dir(db_id), filename_base(db_id) \o RIP_LOG_SUFFIX>>]

CreateFaults == {NoFault, <<"mkdir", "">>, <<"write", "">>}

\* create_disc_dir without the isdir test
NeedsMkdirAlways(bk, path) == TRUE

\* "if not os.path.isdir(path):" in create_disc_dir
NeedsMkdir(bk, path) == ~IsDiscDir(bk, path)

\* create_disc_dir making the directory anew whether or not it is there
EnsureDiscDirAnew(bk, path) == Mkdir(bk, path)


\* The tree after "if not os.path.isdir(path): os.mkdir(path)"
EnsureDiscDir(bk, path) == IF NeedsMkdir(bk, path) THEN Mkdir(bk, path) ELSE bk

\* A handler that cleans up after a failed write, one level too high
AfterWriteFailureRemovesParent(bk, path) == Drop(bk, path[1])

\* The tree when writing the disc ID has failed: the handler raises and
\* leaves the disc directory in place.
AfterWriteFailure(bk, path) == EnsureDiscDir(bk, path)

\* disc_id without the newline
DiscIdTextNoNewline(disc_id) == disc_id


\* disc_id + '\n'
DiscIdText(disc_id) == Append(disc_id, "\n")

\* Database.create_disc_dir(disc_id).  fault is the step that raises in the
\* operating system: os.mkdir (OSError) or the open of the disc ID file
\* (IOError).  os.mkdir also fails on its own when the bucket directory is
\* gone or the name is taken by something that is not a directory.
CreateDiscDir(disc_id, fault) ==
    LET db    == Encoded[disc_id]
        db_id == db.id
        path  == get_disc_dir(db_id)
        fbase == filename_base(db_id)
        O(result, msg) == Outcome("create_disc_dir", disc_id, fault, result, msg, "")
    IN
    /\ opened
    /\ IF ~db.ok
       THEN /\ fault = NoFault
            /\ last' = [O("TypeError", "") EXCEPT !.touched = FALSE]
            /\ UNCHANGED <<fsvars, rips>>
       ELSE IF db_id = <<>>
       THEN /\ fault = NoFault
            /\ last' = [O("IndexError", "") EXCEPT !.touched = FALSE]
            /\ UNCHANGED <<fsvars, rips>>
       ELSE IF NeedsMkdir(buckets, path) /\ (fault[1] = "mkdir" \/ ~CanMkdir(buckets, path))
       THEN /\ fault[1] \in {"none", "mkdir"}
            /\ last' = O("DatabaseError", "error creating disc dir")
            /\ UNCHANGED <<fsvars, rips>>
       ELSE IF fault[1] = "mkdir"
       THEN FALSE
       ELSE IF fault[1] = "write"
       THEN /\ buckets' = AfterWriteFailure(buckets, path)
            /\ last' = O("DatabaseError", "error writing disc ID")
            /\ UNCHANGED <<rootExists, rootdir, rips>>
       ELSE /\ buckets' = WriteFile(EnsureDiscDir(buckets, path), path,
                                    fbase \o DISC_ID_SUFFIX, DiscIdText(disc_id))
            /\ last' = [O("ok", "") EXCEPT !.layout = Layout(db_id)]
            /\ rips' = rips \cup {Layout(db_id)}
            /\ UNCHANGED <<rootExists, rootdir>>
    /\ UNCHANGED <<opened, tampers, stepvars>>

\* model.Disc.from_toc(toc_data, disc_id): the disc built from the TOC text
from_toc(toc_data, disc_id) == [toc |-> toc_data, disc_id |-> disc_id]

\* The mandatory files check with "or" for "and"
HasEitherMandatoryFile(bk, path, audio_file, orig_toc_file) ==
    FileExists(bk, path, audio_file) \/ FileExists(bk, path, orig_toc_file)

\* "os.path.exists(audio_file) and os.path.exists(orig_toc_file)"
HasMandatoryFiles(bk, path, audio_file, orig_toc_file) ==
    FileExists(bk, path, audio_file) /\ FileExists(bk, path, orig_toc_file)

\* Database.get_disc_by_db_id(db_id) against the tree bk:
\* [result, msg, disc, touched].  readFault is an IOError reading the TOC;
\* opening a TOC file that is not there is an IOError as well.
GetDiscByDbId(bk, db_id, readFault) ==
    LET path          == get_disc_dir(db_id)
        fbase         == filename_base(db_id)
        audio_file    == fbase \o AUDIO_SUFFIX
        orig_toc_file == fbase \o ORIG_TOC_SUFFIX
        disc_id       == Decoded[db_id]
        R(result, msg, disc, touched) ==
            [result |-> result, msg |-> msg, disc |-> disc, touched |-> touched]
    IN IF ~ValidDbId[db_id] THEN R("ValueError", "", NoDisc, FALSE)
       ELSE IF ~HasMandatoryFiles(bk, path, audio_file, orig_toc_file)
            THEN R("None", "", NoDisc, TRUE)
       ELSE IF readFault \/ ~FileExists(bk, path, orig_toc_file)
            THEN R("DatabaseError", "error reading", NoDisc, TRUE)
       ELSE IF ~disc_id.ok THEN R("TypeError", "", NoDisc, TRUE)
       ELSE R("ok", "", from_toc(bk[path[1]][path[2]].files[orig_toc_file], disc_id.id), TRUE)

\* A call of get_disc_by_db_id
LookupDbId(db_id, readFault) ==
    LET r == GetDiscByDbId(buckets, db_id, readFault) IN
    /\ opened
    /\ readFault => r.result = "DatabaseError"
    /\ last' = [Outcome("get_disc_by_db_id", db_id,
                        IF readFault THEN <<"read", "">> ELSE NoFault,
                        r.result, r.msg, "")
                  EXCEPT !.disc = r.disc, !.touched = r.touched]
    /\ UNCHANGED <<fsvars, opened, rips, tampers, stepvars>>

\* A call of get_disc_by_disc_id: disc_to_db_id, then get_disc_by_db_id
LookupDiscId(disc_id) ==
    LET db == Encoded[disc_id]
        r  == GetDiscByDbId(buckets, db.id, FALSE)
        O(result, msg) == Outcome("get_disc_by_disc_id", disc_id, NoFault, result, msg, "")
    IN
    /\ opened
    /\ last' = IF ~db.ok THEN [O("TypeError", "") EXCEPT !.touched = FALSE]
               ELSE [O(r.result, r.msg) EXCEPT !.disc = r.disc, !.touched = r.touched]
    /\ UNCHANGED <<fsvars, opened, rips, tampers, stepvars>>

\* The sequences that enumerate the set S once each: the orders in which
\* os.listdir may return the entries
Orders(S) ==
    {s \in [1..Cardinality(S) -> S] : \A x \in S : \E i \in 1..Cardinality(S) : s[i] = x}

\* "if self.is_valid_db_id(f) and self.bucket_for_db_id(f) == b"
IsListed(f, b) == ValidDbId[f] /\ bucket_for_db_id(f) = b

\* The entries of bucket directory b that iterdiscs_db_ids yields
YieldedFrom(bk, b) == {f \in DOMAIN bk[b] : IsListed(f, b)}

\* iterdiscs_db_ids passing over a bucket that cannot be listed
RECURSIVE IterRunsSkipFailed(_, _, _, _)
IterRunsSkipFailed(bk, faultAt, i, done) ==
    IF i > Len(DISC_BUCKETS)
    THEN {[yielded |-> done, result |-> "ok", entry |-> ""]}
    ELSE LET b == DISC_BUCKETS[i] IN
         IF ~IsBucketDir(bk, b) \/ faultAt = b
         THEN IterRunsSkipFailed(bk, faultAt, i + 1, done)
         ELSE UNION {IterRunsSkipFailed(bk, faultAt, i + 1, done \o o) :
                       o \in Orders(YieldedFrom(bk, b))}


\* The runs of iterdiscs_db_ids from bucket number i on, having yielded
\* `done`: [yielded, result, entry].  os.listdir raises OSError for a bucket
\* directory that does not exist, and where faultAt says so.
RECURSIVE IterRuns(_, _, _, _)
IterRuns(bk, faultAt, i, done) ==
    IF i > Len(DISC_BUCKETS)
    THEN {[yielded |-> done, result |-> "ok", entry |-> ""]}
    ELSE LET b == DISC_BUCKETS[i] IN
         IF ~IsBucketDir(bk, b) \/ faultAt = b
         THEN {[yielded |-> done, result |-> "DatabaseError", entry |-> b]}
         ELSE UNION {IterRuns(bk, faultAt, i + 1, done \o o) : o \in Orders(YieldedFrom(bk, b))}

\* A full run of the generator iterdiscs_db_ids
IterDiscs(faultAt) ==
    /\ opened
    /\ faultAt # "" => \A b \in BucketsBefore(faultAt) \cup {faultAt} : IsBucketDir(buckets, b)
    /\ \E r \in IterRuns(buckets, faultAt, 1, <<>>) :
         last' = [Outcome("iterdiscs_db_ids", <<>>,
                          IF faultAt = "" THEN NoFault ELSE <<"listdir", faultAt>>,
                          r.result, IF r.result = "ok" THEN "" ELSE "listdir", r.entry)
                    EXCEPT !.yielded = r.yielded]
    /\ UNCHANGED <<fsvars, opened, rips, tampers, stepvars>>

-----------------------------------------------------------------------------
(* The environment: the ripping process and the administrator *)

\* The ripping process writes the audio or the TOC file named in a layout it
\* was given into the disc directory of that layout.
Rip(layout, which) ==
    LET name == IF which = "audio" THEN layout.audio_file ELSE layout.toc_file
        data == IF which = "audio" THEN AudioData ELSE TocText
    IN
    /\ IsDiscDir(buckets, layout.disc_path)
    /\ ~FileExists(buckets, layout.disc_path, name)
    /\ buckets' = WriteFile(buckets, layout.disc_path, name, data)
    /\ last' = Outcome("rip", name, NoFault, "ok", which, "")
    /\ UNCHANGED <<rootExists, rootdir, opened, rips, tampers, stepvars>>

\* What the ripping process and the player add to a disc directory
CookedTocText == <<"C", "D", "_", "D", "A", "\n", "/", "/", "\n">>

RipLogText == <<"d", "o", "n", "e", "\n">>

\* The cooked TOC or the rip log is written into the disc directory of a
\* layout: the file named by log_path, or <base>.cod next to the TOC file.
Annotate(layout, which) ==
    LET name == IF which = "riplog" THEN layout.log_path[2]
                ELSE filename_base(layout.disc_path[2]) \o COOKED_TOC_SUFFIX
        data == IF which = "riplog" THEN RipLogText ELSE CookedTocText
    IN
    /\ IsDiscDir(buckets, layout.disc_path)
    /\ ~FileExists(buckets, layout.disc_path, name)
    /\ buckets' = WriteFile(buckets, layout.disc_path, name, data)
    /\ last' = Outcome("rip", name, NoFault, "ok", which, "")
    /\ UNCHANGED <<rootExists, rootdir, opened, rips, tampers, stepvars>>


Tamper(what, bound) ==
    /\ tampers < bound
    /\ tampers' = tampers + 1
    /\ last' = Outcome("admin", <<>>, NoFault, "ok", what, "")
    /\ UNCHANGED <<rootExists, opened, rips, stepvars>>

\* A bucket directory is removed with everything in it.
RemoveBucket(b) ==
    /\ b \in DOMAIN buckets
    /\ buckets' = Drop(buckets, b)
    /\ UNCHANGED rootdir
    /\ Tamper("remove bucket", MaxTamper)

\* The version file is overwritten.
EditVersion(text) ==
    /\ IsVersionFile(rootdir)
    /\ rootdir[VERSION_FILE].data # text
    /\ rootdir' = Put(rootdir, VERSION_FILE, FileNode(text))
    /\ UNCHANGED buckets
    /\ Tamper("edit version", MaxTamper)

\* A foreign entry appears in a bucket directory.
Plant(p) ==
    /\ p.bucket \in DOMAIN buckets
    /\ p.name \notin DOMAIN buckets[p.bucket]
    /\ buckets' = [buckets EXCEPT ![p.bucket] = Put(@, p.name, p.node)]
    /\ UNCHANGED rootdir
    /\ Tamper("plant", MaxPlant)

-----------------------------------------------------------------------------
(* create_disc_dir statement by statement, called from two processes *)

\* The processes that call create_disc_dir side by side
Callers == {1, 2}

\* A process that is not inside create_disc_dir.  Inside, pc is the
\* statement it executes next, isdir what os.path.isdir(path) returned to
\* it, and at "done" result and msg are what the call returns or raises.
IdleCall == [pc |-> "idle", disc_id |-> <<>>, isdir |-> FALSE, result |-> "", msg |-> ""]

\* No call is being followed statement by statement.
NoSteps ==
    /\ initpc = [state |-> "idle", done |-> 0]
    /\ calls = [c \in Callers |-> IdleCall]

\* The call of process c ends: the outcome goes to its caller.
CallEnds(c, result, msg) ==
    /\ calls' = [calls EXCEPT ![c].pc = "done", ![c].result = result, ![c].msg = msg]
    /\ last' = [Outcome("create_disc_dir", calls[c].disc_id, NoFault, result, msg, "")
                   EXCEPT !.layout = IF result = "ok"
                                     THEN Layout(Encoded[calls[c].disc_id].id)
                                     ELSE NoLayout]

\* db_id = self.disc_to_db_id(disc_id); path = self.get_disc_dir(db_id)
CallEnter(c, disc_id) ==
    /\ opened
    /\ calls[c].pc = "idle"
    /\ IF Encoded[disc_id].ok
       THEN /\ calls' = [calls EXCEPT ![c] = [IdleCall EXCEPT !.pc = "isdir",
                                                              !.disc_id = disc_id]]
            /\ UNCHANGED last
       ELSE /\ calls' = [calls EXCEPT ![c] = [IdleCall EXCEPT !.pc = "done",
                                                              !.disc_id = disc_id,
                                                              !.result = "TypeError"]]
            /\ last' = [Outcome("create_disc_dir", disc_id, NoFault, "TypeError", "", "")
                           EXCEPT !.touched = FALSE]
    /\ UNCHANGED <<fsvars, opened, rips, tampers, initpc>>

\* if not os.path.isdir(path):
CallIsDir(c) ==
    /\ calls[c].pc = "isdir"
    /\ LET path == get_disc_dir(Encoded[calls[c].disc_id].id) IN
       calls' = [calls EXCEPT ![c].isdir = ~NeedsMkdir(buckets, path),
                              ![c].pc = IF NeedsMkdir(buckets, path) THEN "mkdir" ELSE "write"]
    /\ UNCHANGED <<fsvars, opened, rips, last, tampers, initpc>>

\* os.mkdir(path); an OSError becomes DatabaseError
CallMkdir(c) ==
    /\ calls[c].pc = "mkdir"
    /\ LET path == get_disc_dir(Encoded[calls[c].disc_id].id) IN
       IF CanMkdir(buckets, path)
       THEN /\ buckets' = Mkdir(buckets, path)
            /\ calls' = [calls EXCEPT ![c].pc = "write"]
            /\ UNCHANGED last
       ELSE /\ CallEnds(c, "DatabaseError", "error creating disc dir")
            /\ UNCHANGED buckets
    /\ UNCHANGED <<rootExists, rootdir, opened, rips, tampers, initpc>>

\* f = open(disc_id_path, 'wt'); f.write(disc_id + '\n'); f.close(); return
CallWrite(c) ==
    /\ calls[c].pc = "write"
    /\ LET db_id == Encoded[calls[c].disc_id].id
           path  == get_disc_dir(db_id)
       IN /\ buckets' = WriteFile(buckets, path, filename_base(db_id) \o DISC_ID_SUFFIX,
                                  DiscIdText(calls[c].disc_id))
          /\ rips' = rips \cup {Layout(db_id)}
    /\ CallEnds(c, "ok", "")
    /\ UNCHANGED <<rootExists, rootdir, opened, tampers, initpc>>

\* The caller has taken the outcome and may call again.
CallLeave(c) ==
    /\ calls[c].pc = "done"
    /\ calls' = [calls EXCEPT ![c] = IdleCall]
    /\ UNCHANGED <<fsvars, opened, rips, last, tampers, initpc>>

-----------------------------------------------------------------------------
(* init_db statement by statement, with a process that opens the store *)

\* The file system steps of init_db in the order of the code, each named as
\* the fault that stops init_db there
InitSteps ==
    <<<<"version", "">>, <<"discs", "">>>>
    \o [i \in 1..Len(DISC_BUCKETS) |-> <<"bucket", DISC_BUCKETS[i]>>]

\* The tree when the first n steps of init_db have been carried out
TreeAfter(n) ==
    IF n < Len(InitSteps) THEN InitDbTree(InitSteps[n + 1]) ELSE InitDbTree(NoFault)

\* init_db is called: the tests of db_dir before anything is written
InitEnter ==
    /\ initpc.state # "running"
    /\ IF ~rootExists
       THEN /\ last' = Outcome("init_db", <<>>, NoFault, "DatabaseError", "no such dir", "")
            /\ UNCHANGED initpc
       ELSE IF ~IsEmptyDir(rootdir)
       THEN /\ last' = Outcome("init_db", <<>>, NoFault, "DatabaseError", "dir is not empty", "")
            /\ UNCHANGED initpc
       ELSE /\ initpc' = [state |-> "running", done |-> 0]
            /\ UNCHANGED last
    /\ UNCHANGED <<fsvars, opened, rips, tampers, calls>>

\* The next file system step of init_db is carried out, or raises
\* IOError/OSError (fails) and ends init_db with the error of its handler.
InitStep(fails) ==
    /\ initpc.state = "running"
    /\ LET n == initpc.done + 1 IN
       IF fails
       THEN /\ initpc' = [initpc EXCEPT !.state = "failed"]
            /\ last' = Outcome("init_db", <<>>, InitSteps[n], "NameError", "", "")
            /\ UNCHANGED fsvars
       ELSE /\ rootdir' = TreeAfter(n).rd
            /\ buckets' = TreeAfter(n).bk
            /\ UNCHANGED rootExists
            /\ IF n = Len(InitSteps)
               THEN /\ initpc' = [state |-> "done", done |-> n]
                    /\ last' = Outcome("init_db", <<>>, NoFault, "ok", "", "")
               ELSE /\ initpc' = [initpc EXCEPT !.done = n]
                    /\ UNCHANGED last
    /\ UNCHANGED <<opened, rips, tampers, calls>>

-----------------------------------------------------------------------------
(* The codec called on its own *)

\* Number of generated identifiers of each shape given to the codec
CodecSamples == 16

\* The characters of a Musicbrainz disc ID, by 6-bit value
DiscIdAlphabet ==
    <<"A", "B", "C", "D", "E", "F", "G", "H", "I", "J", "K", "L", "M",
      "N", "O", "P", "Q", "R", "S", "T", "U", "V", "W", "X", "Y", "Z",
      "a", "b", "c", "d", "e", "f", "g", "h", "i", "j", "k", "l", "m",
      "n", "o", "p", "q", "r", "s", "t", "u", "v", "w", "x", "y", "z",
      "0", "1", "2", "3", "4", "5", "6", "7", "8", "9", ".", "_">>

\* A 28-character disc ID: 27 characters of the alphabet and the pad.  The
\* 27th character carries 4 bits of the 20th byte and `spare` in its two
\* lowest bits.
SampleDiscId(k, spare) ==
    [i \in 1..28 |->
        IF i = 28 THEN "-"
        ELSE IF i = 27 THEN DiscIdAlphabet[4 * ((3 * k) % 16) + spare + 1]
        ELSE DiscIdAlphabet[((7 * k + 5 * i + k * i) % 64) + 1]]

\* A name of 40 hexadecimal characters, in lower or in upper case
SampleDbId(k, upper) ==
    [i \in 1..40 |->
        LET d == ((3 * k + 7 * i + k * i) % 16) + 1
        IN IF upper THEN UpperHexDigits[d] ELSE LowerHexDigits[d]]

CodecDiscIds ==
    {SampleDiscId(k, spare) : k \in 1..CodecSamples, spare \in {0, 1}}
    \cup {IdDoc, IdShort, IdBad}

CodecDbIds ==
    {SampleDbId(k, upper) : k \in 1..CodecSamples, upper \in BOOLEAN}
    \cup {DbDoc, DbUpper, DbNewline}

\* The outcome of a codec call: its value is yielded[1]
CodecOutcome(op, arg, r) ==
    [Outcome(op, arg, NoFault, IF r.ok THEN "ok" ELSE "TypeError", "", "")
        EXCEPT !.yielded = IF r.ok THEN <<r.id>> ELSE <<>>, !.touched = FALSE]

\* Database.disc_to_db_id(disc_id)
DiscToDbId(disc_id) ==
    /\ last' = CodecOutcome("disc_to_db_id", disc_id, disc_to_db_id(disc_id))
    /\ UNCHANGED <<fsvars, opened, rips, tampers, stepvars>>

\* Database.db_to_disc_id(db_id)
DbToDiscId(db_id) ==
    /\ last' = CodecOutcome("db_to_disc_id", db_id, db_to_disc_id(db_id))
    /\ UNCHANGED <<fsvars, opened, rips, tampers, stepvars>>

\* The value of the last codec call is given to the opposite function:
\* yielded becomes <<value, value converted back>>.
ConvertBack ==
    /\ last.op \in {"disc_to_db_id", "db_to_disc_id"}
    /\ last.result = "ok"
    /\ Len(last.yielded) = 1
    /\ LET r == IF last.op = "disc_to_db_id"
                THEN db_to_disc_id(last.yielded[1])
                ELSE disc_to_db_id(last.yielded[1])
       IN last' = [last EXCEPT !.result = IF r.ok THEN "ok" ELSE "TypeError",
                               !.yielded = IF r.ok THEN Append(@, r.id) ELSE @,
                               !.msg = "back"]
    /\ UNCHANGED <<fsvars, opened, rips, tampers, stepvars>>

-----------------------------------------------------------------------------
(* Specifications *)

\* Store lifecycle.  db_dir before init_db is missing, an empty directory, or
\* a directory that holds something already.
Init ==
    /\ rootExists \in BOOLEAN
    /\ rootdir \in {<<>>, Put(<<>>, "README", FileNode(<<>>))}
    /\ ~rootExists => rootdir = <<>>
    /\ buckets = <<>>
    /\ opened = FALSE
    /\ rips = {}
    /\ last = Outcome("none", <<>>, NoFault, "ok", "", "")
    /\ tampers = 0
    /\ NoSteps

Next ==
    \/ \E fault \in InitFaults : InitDb(fault)
    \/ \E readFault \in BOOLEAN : Open(readFault)
    \/ \E b \in BucketSet : RemoveBucket(b)
    \/ \E text \in VersionTexts : EditVersion(text)

Spec == Init /\ [][Next]_vars

\* Disc repository.  It starts from the store init_db leaves in an empty
\* directory, with a Database object constructed for it.
RepoInit ==
    /\ rootExists = TRUE
    /\ rootdir = InitDbTree(NoFault).rd
    /\ buckets = InitDbTree(NoFault).bk
    /\ opened = TRUE
    /\ rips = {}
    /\ last = Outcome("open", <<>>, NoFault, "ok", "", "")
    /\ tampers = 0
    /\ NoSteps

RepoNext ==
    \/ \E readFault \in BOOLEAN : Open(readFault)
    \/ \E disc_id \in DiscIds, fault \in CreateFaults : CreateDiscDir(disc_id, fault)
    \/ \E db_id \in DbIds, readFault \in BOOLEAN : LookupDbId(db_id, readFault)
    \/ \E disc_id \in DiscIds : LookupDiscId(disc_id)
    \/ \E faultAt \in BucketSet \cup {""} : IterDiscs(faultAt)
    \/ \E layout \in rips, which \in {"audio", "toc"} : Rip(layout, which)
    \/ \E p \in Plants : Plant(p)

RepoSpec == RepoInit /\ [][RepoNext]_vars

-----------------------------------------------------------------------------
\* The codec on its own, given identifiers of every shape.
CodecNext ==
    \/ \E disc_id \in CodecDiscIds : DiscToDbId(disc_id)
    \/ \E db_id \in CodecDbIds : DbToDiscId(db_id)
    \/ ConvertBack

CodecSpec == RepoInit /\ [][CodecNext]_vars

-----------------------------------------------------------------------------
\* Two processes inside create_disc_dir at once, their statements
\* interleaved in every order.
RaceNext ==
    \/ \E c \in Callers, disc_id \in DiscIds : CallEnter(c, disc_id)
    \/ \E c \in Callers : CallIsDir(c)
    \/ \E c \in Callers : CallMkdir(c)
    \/ \E c \in Callers : CallWrite(c)
    \/ \E c \in Callers : CallLeave(c)

RaceSpec == RepoInit /\ [][RaceNext]_vars

-----------------------------------------------------------------------------
\* The operations that take a disc ID, given well-formed and malformed ones.
InputNext ==
    \/ \E disc_id \in DiscIds \cup MalformedIds, fault \in CreateFaults :
         CreateDiscDir(disc_id, fault)
    \/ \E disc_id \in DiscIds \cup MalformedIds : LookupDiscId(disc_id)
    \/ \E layout \in rips, which \in {"audio", "toc"} : Rip(layout, which)

InputSpec == RepoInit /\ [][InputNext]_vars

-----------------------------------------------------------------------------
\* create_disc_dir called again for discs in every state of a rip.
RestartNext ==
    \/ \E disc_id \in DiscIds, fault \in CreateFaults : CreateDiscDir(disc_id, fault)
    \/ \E disc_id \in DiscIds : LookupDiscId(disc_id)
    \/ \E layout \in rips, which \in {"audio", "toc"} : Rip(layout, which)
    \/ \E layout \in rips, which \in {"cod", "riplog"} : Annotate(layout, which)

RestartSpec == RepoInit /\ [][RestartNext]_vars

-----------------------------------------------------------------------------
\* init_db one step at a time, and Database(db_dir) called between any two of
\* its steps and after it has ended.
BuildNext ==
    \/ InitEnter
    \/ \E fails \in BOOLEAN : InitStep(fails)
    \/ \E readFault \in BOOLEAN : Open(readFault)

BuildSpec == Init /\ [][BuildNext]_vars

-----------------------------------------------------------------------------
(* Vocabulary of the properties, written out independently of the code *)

SixteenBuckets ==
    {"0", "1", "2", "3", "4", "5", "6", "7", "8", "9", "a", "b", "c", "d", "e", "f"}

HexDigitChars ==
    SixteenBuckets \cup {"A", "B", "C", "D", "E", "F"}

\* Exactly 40 hexadecimal characters, in either case
IsFortyHex(s) == Len(s) = 40 /\ \A i \in 1..Len(s) : s[i] \in HexDigitChars

\* The tree opens: every check of Database.__init__ passes
Opens == OpenCheck(rootExists, rootdir, buckets, FALSE).result = "ok"

\* The tree after the step opens
OpensAfter == OpenCheck(rootExists', rootdir', buckets', FALSE).result = "ok"

\* The version file holds the current version and all 16 buckets are there
StoreLaidOut ==
    /\ rootExists
    /\ IsVersionFile(rootdir)
    /\ rootdir[VERSION_FILE].data = <<"1", "\n">>
    /\ IsDiscTopDir(rootdir)
    /\ DOMAIN buckets = SixteenBuckets

RepoOps ==
    {"create_disc_dir", "get_disc_by_db_id", "get_disc_by_disc_id", "iterdiscs_db_ids"}

\* The buckets that hold a directory named n
DirsNamed(bk, n) ==
    {b \in DOMAIN bk : n \in DOMAIN bk[b] /\ bk[b][n].kind = "dir"}

\* The disc directory of a storage identifier as the layout defines it:
\* below the bucket named by its first character in lower case
LayoutDir(id) == <<LowerChar(id[1]), id>>

-----------------------------------------------------------------------------
(* Properties *)

\* C1: when init_db returns without error, db_dir holds the version file
\* with the current version (1) and discs/ with all 16 bucket directories,
\* and Database(db_dir) succeeds on that tree.
C1_InitCreatesValidStore ==
    (last.op = "init_db" /\ last.result = "ok") => (StoreLaidOut /\ Opens)

C1_Witness == last.op = "init_db" /\ last.result = "ok" /\ tampers = 0

\* C7: init_db on a db_dir that is missing or not empty raises DatabaseError
\* and changes nothing in the tree, so a store that opened before the call
\* opens after it; this includes a second init_db after a first one.
C7_InitRejectsPopulatedRoot ==
    [][(last'.op = "init_db" /\ (~rootExists \/ DOMAIN rootdir # {}))
        => /\ last'.result = "DatabaseError"
           /\ last'.msg = (IF rootExists THEN "dir is not empty" ELSE "no such dir")
           /\ UNCHANGED fsvars
           /\ Opens => OpensAfter]_vars

C7_Witness ==
    /\ last.op = "init_db" /\ last.result = "DatabaseError"
    /\ last.msg = "dir is not empty"
    /\ tampers = 0 /\ StoreLaidOut /\ Opens

\* C8: Database(db_dir) on a store that lacks exactly one bucket directory b
\* raises DatabaseError "missing bucket dir" with entry b; a version file
\* whose first line is not an integer raises "invalid version", and one whose
\* first line is another integer raises "incompatible version".
C8_OpenNamesTheFault ==
    (last.op = "open" /\ last.fault = NoFault /\ rootExists /\ IsVersionFile(rootdir)) =>
      /\ \A b \in SixteenBuckets :
           (/\ rootdir[VERSION_FILE].data = <<"1", "\n">>
            /\ IsDiscTopDir(rootdir)
            /\ DOMAIN buckets = SixteenBuckets \ {b})
           => (last.result = "DatabaseError" /\ last.msg = "missing bucket dir"
               /\ last.entry = b)
      /\ rootdir[VERSION_FILE].data \in {<<>>, <<"x", "\n">>}
           => (last.result = "DatabaseError" /\ last.msg = "invalid version")
      /\ rootdir[VERSION_FILE].data = <<"2", "\n">>
           => (last.result = "DatabaseError" /\ last.msg = "incompatible version")

C8_Witness ==
    /\ last.op = "open" /\ last.msg = "missing bucket dir" /\ last.entry = "f"
    /\ rootdir[VERSION_FILE].data = <<"1", "\n">>
    /\ DOMAIN buckets = SixteenBuckets \ {"f"}

\* C2: a call of create_disc_dir, get_disc_by_db_id, get_disc_by_disc_id or
\* iterdiscs_db_ids, whether it returns or raises, on a store that opens
\* leaves the version file as it was and all 16 bucket directories in
\* place, so the store still opens.
C2_RepoOpsKeepStoreValid ==
    [][(Opens /\ last'.op \in RepoOps)
        => /\ UNCHANGED <<rootExists, rootdir>>
           /\ DOMAIN buckets' = SixteenBuckets
           /\ OpensAfter]_vars

C2_Witness ==
    /\ last.op = "create_disc_dir" /\ last.result = "DatabaseError"
    /\ last.fault = <<"write", "">>
    /\ StoreLaidOut /\ Opens

\* C3: create_disc_dir for a disc ID for which it has succeeded before
\* succeeds again; it adds no directory, there is one directory of that
\* name in an untampered store, and the disc ID file holds the disc ID and a
\* newline.
C3_CreateTwice ==
    [][(/\ last'.op = "create_disc_dir" /\ last'.fault = NoFault
        /\ Encoded[last'.arg].ok
        /\ Layout(Encoded[last'.arg].id) \in rips)
        => LET db_id == Encoded[last'.arg].id
               dir   == LayoutDir(db_id)
           IN /\ last'.result = "ok"
              /\ DirsNamed(buckets', db_id) = DirsNamed(buckets, db_id)
              /\ tampers = 0 => DirsNamed(buckets', db_id) = {dir[1]}
              /\ FileExists(buckets', dir, Prefix(db_id, 8) \o <<".", "i", "d">>)
              /\ buckets'[dir[1]][dir[2]].files[Prefix(db_id, 8) \o <<".", "i", "d">>]
                   = last'.arg \o <<"\n">>]_vars

\* The second create_disc_dir of a restarted rip: the audio file of the
\* first attempt is there.
C3_Witness ==
    /\ last.op = "create_disc_dir" /\ last.result = "ok" /\ last.arg = IdDoc
    /\ FileExists(buckets, LayoutDir(DbDoc), Prefix(DbDoc, 8) \o <<".", "c", "d", "r">>)

\* C4: for a disc ID for which create_disc_dir succeeded, once the audio
\* file and the TOC file named in the returned layout are in the returned
\* disc directory, get_disc_by_disc_id returns a disc.
C4_LookupFindsRippedDisc ==
    (/\ last.op = "get_disc_by_disc_id"
     /\ Encoded[last.arg].ok
     /\ Layout(Encoded[last.arg].id) \in rips
     /\ LET layout == Layout(Encoded[last.arg].id)
        IN /\ FileExists(buckets, layout.disc_path, layout.audio_file)
           /\ FileExists(buckets, layout.disc_path, layout.toc_file))
    => last.result = "ok"

\* C5: get_disc_by_db_id for 40 hexadecimal characters returns None when the
\* audio file or the TOC file is missing from the disc directory, as it is
\* right after create_disc_dir.
C5_AbsentWhenFileMissing ==
    (/\ last.op = "get_disc_by_db_id"
     /\ IsFortyHex(last.arg)
     /\ \/ ~FileExists(buckets, LayoutDir(last.arg), Prefix(last.arg, 8) \o <<".", "c", "d", "r">>)
        \/ ~FileExists(buckets, LayoutDir(last.arg), Prefix(last.arg, 8) \o <<".", "t", "o", "c">>))
    => last.result = "None"

C5_Witness ==
    /\ last.op = "get_disc_by_db_id" /\ last.arg = DbDoc /\ last.result = "None"
    /\ FileExists(buckets, LayoutDir(DbDoc), Prefix(DbDoc, 8) \o <<".", "i", "d">>)
    /\ FileExists(buckets, LayoutDir(DbDoc), Prefix(DbDoc, 8) \o <<".", "t", "o", "c">>)
    /\ ~FileExists(buckets, LayoutDir(DbDoc), Prefix(DbDoc, 8) \o <<".", "c", "d", "r">>)

\* C6: get_disc_by_db_id with a string that is not exactly 40 hexadecimal
\* characters raises ValueError (neither None nor a DatabaseError), and does
\* so before it touches the file system.
C6_InvalidIdRejected ==
    (last.op = "get_disc_by_db_id" /\ ~IsFortyHex(last.arg))
    => (last.result = "ValueError" /\ ~last.touched)

\* C9: every name iterdiscs_db_ids yields is 40 hexadecimal characters, was
\* found in the bucket directory of its own first character, and no name of
\* a later bucket comes before a name of an earlier one.
C9_ListedNamesValidAndOrdered ==
    last.op = "iterdiscs_db_ids" =>
      LET y == last.yielded IN
      /\ \A i \in 1..Len(y) :
           /\ IsFortyHex(y[i])
           /\ LowerChar(y[i][1]) \in DOMAIN buckets
           /\ y[i] \in DOMAIN buckets[LowerChar(y[i][1])]
      /\ \A i, j \in 1..Len(y) :
           i < j => IndexOf(DISC_BUCKETS, LowerChar(y[i][1]))
                      <= IndexOf(DISC_BUCKETS, LowerChar(y[j][1]))

\* C10: for a string of 40 hexadecimal characters in either case,
\* bucket_for_db_id is the first character in lower case, one of the 16
\* bucket names, and get_disc_dir lies in a bucket directory that exists.
C10_BucketIsLowerCase ==
    (last.op = "get_disc_by_db_id" /\ IsFortyHex(last.arg)) =>
      /\ bucket_for_db_id(last.arg) = LowerChar(last.arg[1])
      /\ bucket_for_db_id(last.arg) \in SixteenBuckets
      /\ Opens => IsBucketDir(buckets, get_disc_dir(last.arg)[1])

\* A disc ID in canonical form: 27 characters of the alphabet encoding 20
\* bytes with no stray bits in the last of them, and the pad.
IsCanonicalDiscId(x) ==
    /\ Len(x) = 28
    /\ x[28] = "-"
    /\ \A i \in 1..27 : x[i] \in Range(DiscIdAlphabet)
    /\ (IndexOf(DiscIdAlphabet, x[27]) - 1) % 4 = 0

IsDiscIdText(x) == \A i \in 1..Len(x) : x[i] \in Range(DiscIdAlphabet) \cup {"-"}

ConvertedBack(op) == last.op = op /\ last.msg = "back"

\* C11, as stated: every disc ID made of the characters of the alphabet
\* comes back unchanged from disc_to_db_id followed by db_to_disc_id, and
\* every name of 40 hexadecimal characters in either case (what
\* is_valid_db_id is there to accept) comes back unchanged from
\* db_to_disc_id followed by disc_to_db_id.
C11_CodecBijection ==
    /\ (last.op = "disc_to_db_id" /\ IsDiscIdText(last.arg) /\ last.msg = "back")
         => (last.result = "ok" /\ last.yielded[2] = last.arg)
    /\ (last.op = "db_to_disc_id" /\ IsFortyHex(last.arg))
         => (last.result = "ok" /\ (last.msg = "back" => last.yielded[2] = last.arg))

\* C11, amended: a disc ID in canonical form comes back unchanged from
\* disc_to_db_id followed by db_to_disc_id, and a name of exactly 40
\* hexadecimal characters comes back from db_to_disc_id followed by
\* disc_to_db_id in lower case (unchanged when it was in lower case).
C11_CodecRoundTrip ==
    /\ (last.op = "disc_to_db_id" /\ IsCanonicalDiscId(last.arg))
         => /\ last.result = "ok"
            /\ IsFortyHex(last.yielded[1])
            /\ last.msg = "back" => last.yielded[2] = last.arg
    /\ (last.op = "db_to_disc_id" /\ IsFortyHex(last.arg))
         => /\ last.result = "ok"
            /\ IsCanonicalDiscId(last.yielded[1])
            /\ last.msg = "back" =>
                 last.yielded[2] = [i \in 1..40 |-> LowerChar(last.arg[i])]

C11_Witness ==
    /\ ConvertedBack("db_to_disc_id")
    /\ last.arg = SampleDbId(CodecSamples, TRUE)
    /\ last.yielded[2] = SampleDbId(CodecSamples, FALSE)
    /\ last.yielded[2] # last.arg


\* C12: when a file system step of init_db (writing the version file, making
\* discs/, making a bucket directory) raises IOError/OSError, init_db raises
\* DatabaseError and nothing else.
C12_InitFailureIsStoreError ==
    (last.op = "init_db" /\ last.fault # NoFault) => last.result = "DatabaseError"


LowerHexDigitChars ==
    {"0", "1", "2", "3", "4", "5", "6", "7", "8", "9", "a", "b", "c", "d", "e", "f"}

IsFortyLowerHex(s) == Len(s) = 40 /\ \A i \in 1..Len(s) : s[i] \in LowerHexDigitChars

\* C13: the directory create_disc_dir has made or found is
\* discs/<bucket>/<db_id> where db_id is exactly 40 lower-case hexadecimal
\* characters and bucket is its first character; the disc ID is in the path
\* nowhere and is the content of the .id file.
C13_CreatedDirIsFortyLowerHex ==
    (last.op = "create_disc_dir" /\ last.result = "ok") =>
      LET path == last.layout.disc_path IN
      /\ IsFortyLowerHex(path[2])
      /\ path[1] = path[2][1]
      /\ path[1] \in SixteenBuckets
      /\ IsDiscDir(buckets, path)
      /\ last.arg # path[2]
      /\ last.arg \notin DOMAIN buckets[path[1]][path[2]].files
      /\ \E f \in DOMAIN buckets[path[1]][path[2]].files :
           buckets[path[1]][path[2]].files[f] = Append(last.arg, "\n")


\* The bucket names in ascending order
BucketOrder ==
    <<"0", "1", "2", "3", "4", "5", "6", "7", "8", "9", "a", "b", "c", "d", "e", "f">>

\* Version file contents whose first line is an integer, and those whose
\* first line is the supported version
ParsableVersions == {<<"1", "\n">>, <<"2", "\n">>, <<"1", "\n", "x">>}

CurrentVersions == {<<"1", "\n">>, <<"1", "\n", "x">>}

HasVersionFile == ".codplayerdb" \in DOMAIN rootdir /\ rootdir[".codplayerdb"].kind = "file"

\* Check number k of the opening of a store, in the order of the layout
\* description, fails on the current tree: 1 the root is a directory, 2 the
\* version file exists, 3 its version parses, 4 the version is the supported
\* one, 5 discs/ exists, 5 + i bucket number i exists.
CheckFails(k) ==
    CASE k = 1 -> ~rootExists
      [] k = 2 -> ~HasVersionFile
      [] k = 3 -> HasVersionFile /\ rootdir[".codplayerdb"].data \notin ParsableVersions
      [] k = 4 -> HasVersionFile /\ rootdir[".codplayerdb"].data \notin CurrentVersions
      [] k = 5 -> ~("discs" \in DOMAIN rootdir /\ rootdir["discs"].kind = "dir")
      [] OTHER -> BucketOrder[k - 5] \notin DOMAIN buckets

FailingChecks == {k \in 1..21 : CheckFails(k)}

\* What the opening reports when check k is the one that fails
ReportOf(k) ==
    CASE k = 1 -> <<"no such directory", "">>
      [] k = 2 -> <<"missing version file", ".codplayerdb">>
      [] k = 3 -> <<"invalid version", ".codplayerdb">>
      [] k = 4 -> <<"incompatible version", ".codplayerdb">>
      [] k = 5 -> <<"missing disc dir", "">>
      [] OTHER -> <<"missing bucket dir", BucketOrder[k - 5]>>

\* C14: Database(db_dir) reports the earliest check that fails, in the order
\* root directory, version file present, version parses, version supported,
\* discs/ present, buckets 0..f ascending; it succeeds exactly when no check
\* fails.
C14_OpenReportsEarliestFailure ==
    (last.op = "open" /\ last.fault = NoFault) =>
      IF FailingChecks = {}
      THEN last.result = "ok"
      ELSE /\ last.result = "DatabaseError"
           /\ <<last.msg, last.entry>>
                = ReportOf(CHOOSE k \in FailingChecks : \A j \in FailingChecks : k <= j)

\* Two buckets are missing and the lower one is named.
C14_Witness ==
    /\ last.op = "open" /\ last.fault = NoFault
    /\ FailingChecks = {9, 16}
    /\ last.msg = "missing bucket dir" /\ last.entry = "3"


\* C15: when listing a bucket directory fails, iterdiscs_db_ids ends with a
\* DatabaseError whose entry is that bucket, having yielded names of earlier
\* buckets only; it does not end normally.
C15_ListingFailureEndsRun ==
    (last.op = "iterdiscs_db_ids" /\ last.fault # NoFault) =>
      /\ last.result = "DatabaseError"
      /\ last.entry = last.fault[2]
      /\ \A i \in 1..Len(last.yielded) :
           IndexOf(BucketOrder, last.yielded[i][1]) < IndexOf(BucketOrder, last.fault[2])

\* Bucket b cannot be listed: the disc in bucket 0 has been yielded, the disc
\* in bucket b has not.
C15_Witness ==
    /\ last.op = "iterdiscs_db_ids" /\ last.fault = <<"listdir", "b">>
    /\ last.yielded = <<DbZero>>
    /\ DbDoc \in DOMAIN buckets["b"]
    /\ last.entry = "b"


\* The directory of the documented disc uP.sebZoiZSYakZh.g3coKrme8I-
DocDiscDir ==
    <<"b", <<"b", "8", "f", "f", "a", "c", "7", "9", "b", "6", "6", "8", "8", "9",
             "9", "4", "9", "8", "6", "a", "4", "6", "6", "1", "f", "a", "0", "d",
             "d", "c", "a", "0", "a", "a", "e", "6", "7", "b", "c", "2">>>>

DocDiscId ==
    <<"u", "P", ".", "s", "e", "b", "Z", "o", "i", "Z", "S", "Y", "a", "k",
      "Z", "h", ".", "g", "3", "c", "o", "K", "r", "m", "e", "8", "I", "-">>

\* Both processes have come to the end of a create_disc_dir call for the
\* documented disc.
BothCreatedDoc == \A c \in Callers : calls[c].pc = "done" /\ calls[c].disc_id = DocDiscId

\* Exactly one directory of the documented disc, its .id file holding the
\* disc ID and a newline
OneDocDiscDir ==
    /\ DirsNamed(buckets, DocDiscDir[2]) = {DocDiscDir[1]}
    /\ \E f \in DOMAIN buckets[DocDiscDir[1]][DocDiscDir[2]].files :
         buckets[DocDiscDir[1]][DocDiscDir[2]].files[f] = Append(DocDiscId, "\n")

\* C16, as stated: when two processes run create_disc_dir for the same disc
\* ID with their statements interleaved, neither fails because the directory
\* exists already, and in the end there is exactly one disc directory whose
\* .id file holds the disc ID and a newline.
C16_ConcurrentCreateNeverFails ==
    BothCreatedDoc =>
      /\ \A c \in Callers : calls[c].result = "ok"
      /\ OneDocDiscDir

\* C16, amended: of two processes that run create_disc_dir for the same disc
\* ID with their statements interleaved, at least one succeeds; the other
\* fails, with the DatabaseError of os.mkdir, only if its isdir test found
\* no directory; and in the end there is exactly one disc directory whose
\* .id file holds the disc ID and a newline.
C16_ConcurrentCreateOneDir ==
    BothCreatedDoc =>
      /\ \E c \in Callers : calls[c].result = "ok"
      /\ \A c \in Callers :
           calls[c].result # "ok" =>
             /\ calls[c].result = "DatabaseError"
             /\ calls[c].msg = "error creating disc dir"
             /\ ~calls[c].isdir
      /\ OneDocDiscDir

\* Process 2 lost the race for os.mkdir; process 1 wrote the .id file.
C16_Witness ==
    /\ BothCreatedDoc
    /\ calls[1].result = "ok" /\ ~calls[1].isdir
    /\ calls[2].result = "DatabaseError"


\* A string that is no base64 text in the disc ID alphabet: it has a
\* character outside the alphabet, or it ends inside a group of four
\* characters without padding.
IsUndecodable(x) ==
    \/ \E i \in 1..Len(x) : x[i] \notin Range(DiscIdAlphabet) \cup {"-"}
    \/ "-" \notin Range(x) /\ Len(x) % 4 # 0

\* The exceptions taken as the report of an invalid identifier
InvalidIdentifierErrors == {"ValueError", "TypeError"}

\* C17: create_disc_dir and get_disc_by_disc_id given a disc ID that cannot
\* be decoded raise the invalid-identifier error and leave the tree as it
\* was: no disc directory and no .id file is made.
C17_UndecodableIdRejected ==
    [][(last'.op \in {"create_disc_dir", "get_disc_by_disc_id"} /\ IsUndecodable(last'.arg))
         => (last'.result \in InvalidIdentifierErrors /\ buckets' = buckets)]_vars


\* C18: a full run of iterdiscs_db_ids yields, exactly once each, the
\* directory name of every disc ID for which create_disc_dir has succeeded,
\* whether or not the disc has been ripped yet.
C18_ListingIsComplete ==
    (last.op = "iterdiscs_db_ids" /\ last.result = "ok") =>
      \A layout \in rips :
        Cardinality({i \in 1..Len(last.yielded) : last.yielded[i] = layout.disc_path[2]}) = 1


IsIdFileName(f) == Len(f) > 3 /\ SubSeq(f, Len(f) - 2, Len(f)) = <<".", "i", "d">>

\* The entries <<bucket, name>> of a tree
Entries(bk) == UNION {{<<b, n>> : n \in DOMAIN bk[b]} : b \in DOMAIN bk}

\* Entry e is in both trees, of the same kind, and every file in it other
\* than an .id file is the same in both.
SameButIdFile(bk1, bk2, e) ==
    /\ e \in Entries(bk1) /\ e \in Entries(bk2)
    /\ bk1[e[1]][e[2]].kind = bk2[e[1]][e[2]].kind
    /\ bk1[e[1]][e[2]].data = bk2[e[1]][e[2]].data
    /\ {f \in DOMAIN bk1[e[1]][e[2]].files : ~IsIdFileName(f)}
         = {f \in DOMAIN bk2[e[1]][e[2]].files : ~IsIdFileName(f)}
    /\ \A f \in DOMAIN bk1[e[1]][e[2]].files :
         ~IsIdFileName(f) => bk1[e[1]][e[2]].files[f] = bk2[e[1]][e[2]].files[f]

\* The entries in which two trees differ
Changed(bk1, bk2) ==
    {e \in Entries(bk1) \cup Entries(bk2) :
       ~(e \in Entries(bk1) /\ e \in Entries(bk2) /\ bk1[e[1]][e[2]] = bk2[e[1]][e[2]])}

\* C19: a call of create_disc_dir changes at most one disc directory, and
\* only by making it and writing its .id file: audio, TOC, cooked TOC and rip
\* log files there and all other entries stay as they are, and
\* get_disc_by_db_id returns the disc it returned before.
C19_CreateKeepsRippedFiles ==
    [][last'.op = "create_disc_dir" =>
         /\ rootExists' = rootExists /\ rootdir' = rootdir
         /\ DOMAIN buckets' = DOMAIN buckets
         /\ Cardinality(Changed(buckets, buckets')) <= 1
         /\ \A e \in Entries(buckets) : SameButIdFile(buckets, buckets', e)
         /\ \A e \in Entries(buckets') \ Entries(buckets) :
              /\ buckets'[e[1]][e[2]].kind = "dir"
              /\ \A f \in DOMAIN buckets'[e[1]][e[2]].files : IsIdFileName(f)
         /\ \A e \in Entries(buckets) :
              GetDiscByDbId(buckets, e[2], FALSE).result = "ok"
                => GetDiscByDbId(buckets', e[2], FALSE) = GetDiscByDbId(buckets, e[2], FALSE)
      ]_vars

\* create_disc_dir has returned for a disc whose directory holds the files
\* of a finished rip.
C19_Witness ==
    /\ last.op = "create_disc_dir" /\ last.result = "ok" /\ last.arg = DocDiscId
    /\ DocDiscDir \in Entries(buckets)
    /\ Cardinality({f \in DOMAIN buckets[DocDiscDir[1]][DocDiscDir[2]].files :
                      ~IsIdFileName(f)}) = 4


\* init_db has begun and has not carried out its last step.
InitUnfinished == initpc.state \in {"running", "failed"}

\* C20: between the steps of init_db and after an init_db that has failed
\* part-way, Database(db_dir) fails; it succeeds only when init_db has made
\* the last bucket directory.
C20_NoHalfBuiltStoreOpens ==
    /\ InitUnfinished => ~Opens
    /\ (last.op = "open" /\ InitUnfinished) => last.result = "DatabaseError"
    /\ (last.op = "open" /\ last.result = "ok")
         => (initpc.state = "done" /\ DOMAIN buckets = SixteenBuckets)

\* Database(db_dir) called when init_db has made 14 of the 16 buckets
C20_Witness ==
    /\ last.op = "open" /\ last.result = "DatabaseError"
    /\ initpc.state = "running"
    /\ Cardinality(DOMAIN buckets) = 14
    /\ last.entry = "e"


====
